---- MODULE Spec2Model ----
(***************************************************************************)
(* Model of ThinkStats/conditional.py (ConditionPmf, ConditionOnWeeks,     *)
(* MakeFigure, RelativeRisk) and of the option handling of                 *)
(* ThinkStats/myplot.py (Underride, Plot, Pmf).                            *)
(*                                                                         *)
(* Pmf objects live in a heap so that aliasing between a Pmf and its copy  *)
(* is expressible.  Probability masses are exact rationals <<num, den>>    *)
(* in lowest terms; floating-point rounding is not modelled.               *)
(* The Pmf class (Pmf.py) and risk.ComputeRelativeRisk (risk.py) are not   *)
(* part of the two source files; their operators follow the specification. *)
(***************************************************************************)
EXTENDS Integers, Sequences, FiniteSets, TLC

VARIABLES pc, op, args, heap, ret

vars == <<pc, op, args, heap, ret>>

(***************************** bounds **************************************)
\* pmf values are drawn from FirstValue..FirstValue+NumValues-1 and LateValue
FirstValue == 38
NumValues == 2
LateValue == 45
\* input masses are n/MassDen for n in 0..MaxMass
MassDen == 2
MaxMass == 1

(************************** exact rationals ********************************)
RECURSIVE GCD(_, _)
GCD(a, b) == IF b = 0 THEN a ELSE GCD(b, a % b)

Abs(x) == IF x < 0 THEN -x ELSE x

\* the rational n/d (d # 0) in lowest terms with positive denominator
Rat(n, d) ==
    LET g == GCD(Abs(n), Abs(d))
        s == IF d < 0 THEN -1 ELSE 1
    IN  <<(s * n) \div g, (s * d) \div g>>

Zero == Rat(0, 1)
One == Rat(1, 1)

RatAdd(p, q) == Rat(p[1] * q[2] + q[1] * p[2], p[2] * q[2])
RatMul(p, q) == Rat(p[1] * q[1], p[2] * q[2])
\* q # Zero
RatDiv(p, q) == Rat(p[1] * q[2], p[2] * q[1])

(************************** Pmf objects ************************************)
\* a Pmf object: its dictionary d (value -> mass) and its name
PmfObject(d, name) == [d |-> d, name |-> name]

\* sum of the masses of d over the values in S
RECURSIVE SumOver(_, _)
SumOver(d, S) ==
    IF S = {} THEN Zero
    ELSE LET v == CHOOSE x \in S : TRUE
         IN  RatAdd(d[v], SumOver(d, S \ {v}))

Total(h, pmf) == SumOver(h[pmf].d, DOMAIN h[pmf].d)

\* pmf.Copy(name): a new object with an equal, independent mapping
Copy(h, pmf, name) ==
    [heap |-> Append(h, PmfObject(h[pmf].d, name)), ref |-> Len(h) + 1]

\* pmf.Values()
Values(h, pmf) == DOMAIN h[pmf].d

\* pmf.Prob(x): the mass of x, 0 when absent
Prob(h, pmf, x) == IF x \in DOMAIN h[pmf].d THEN h[pmf].d[x] ELSE Zero

\* pmf.Remove(x)
Remove(h, pmf, x) ==
    [h EXCEPT ![pmf].d = [v \in (DOMAIN h[pmf].d) \ {x} |-> h[pmf].d[v]]]

\* pmf.Normalize(): fails on zero total mass
Normalize(h, pmf) ==
    LET total == Total(h, pmf)
    IN  IF total = Zero
        THEN [status |-> "EmptyDistributionError", heap |-> h]
        ELSE LET factor == RatDiv(One, total)
             IN  [status |-> "ok",
                  heap |-> [h EXCEPT ![pmf].d =
                              [v \in DOMAIN h[pmf].d |->
                                  RatMul(h[pmf].d[v], factor)]]]

(************************** conditional.py *********************************)
\* the loop "for val in vals: cond_pmf.Remove(val)"
RECURSIVE RemoveEach(_, _, _)
RemoveEach(h, pmf, vals) ==
    IF vals = {} THEN h
    ELSE LET val == CHOOSE x \in vals : TRUE
         IN  RemoveEach(Remove(h, pmf, val), pmf, vals \ {val})

\* variant: keeps the values on which filter_func is true
ConditionPmfInverted(h, pmf, filter_func, name) ==
    LET c == Copy(h, pmf, name)
        cond_pmf == c.ref
        vals == {val \in Values(h, pmf) : val \notin filter_func}
        removed == RemoveEach(c.heap, cond_pmf, vals)
        n == Normalize(removed, cond_pmf)
    IN  [status |-> n.status, heap |-> n.heap, ref |-> cond_pmf]

\* variant: returns the copy without normalizing it
ConditionPmfNoNormalize(h, pmf, filter_func, name) ==
    LET c == Copy(h, pmf, name)
        cond_pmf == c.ref
        vals == {val \in Values(h, pmf) : val \in filter_func}
        removed == RemoveEach(c.heap, cond_pmf, vals)
    IN  [status |-> "ok", heap |-> removed, ref |-> cond_pmf]

\* variant: normalizes only when there is mass, and returns in any case
ConditionPmfSwallow(h, pmf, filter_func, name) ==
    LET c == Copy(h, pmf, name)
        cond_pmf == c.ref
        vals == {val \in Values(h, pmf) : val \in filter_func}
        removed == RemoveEach(c.heap, cond_pmf, vals)
        n == Normalize(removed, cond_pmf)
    IN  [status |-> "ok", heap |-> n.heap, ref |-> cond_pmf]

\* variant: the comprehension lacks its condition, every value is removed
ConditionPmfRemoveAll(h, pmf, filter_func, name) ==
    LET c == Copy(h, pmf, name)
        cond_pmf == c.ref
        vals == Values(h, pmf)
        removed == RemoveEach(c.heap, cond_pmf, vals)
        n == Normalize(removed, cond_pmf)
    IN  [status |-> n.status, heap |-> n.heap, ref |-> cond_pmf]

\* variant: the values are removed from pmf instead of from the copy
ConditionPmfRemoveFromSource(h, pmf, filter_func, name) ==
    LET c == Copy(h, pmf, name)
        cond_pmf == c.ref
        vals == {val \in Values(h, pmf) : val \in filter_func}
        removed == RemoveEach(c.heap, pmf, vals)
        n == Normalize(removed, cond_pmf)
    IN  [status |-> n.status, heap |-> n.heap, ref |-> cond_pmf]

\* filter_func is given by the set of values on which it returns true
ConditionPmf(h, pmf, filter_func, name) ==
    LET c == Copy(h, pmf, name)
        cond_pmf == c.ref
        vals == {val \in Values(h, pmf) : val \in filter_func}
        removed == RemoveEach(c.heap, cond_pmf, vals)
        n == Normalize(removed, cond_pmf)
    IN  [status |-> n.status, heap |-> n.heap, ref |-> cond_pmf]

\* def ConditionOnWeeks(pmf, week=39, name='conditional')
ConditionOnWeeksDefaults == [week |-> 39, name |-> "conditional"]

\* def RelativeRisk(first, others, week=38)
RelativeRiskDefaults == [week |-> 38]

\* binding of keyword arguments: a parameter not passed takes its default
Bind(defaults, kwargs) ==
    [k \in DOMAIN defaults |->
        IF k \in DOMAIN kwargs THEN kwargs[k] ELSE defaults[k]]

\* variant: the filter is x <= week
ConditionOnWeeksLE(h, pmf, week, name) ==
    LET filter_func == {x \in Int : x <= week}
    IN  ConditionPmf(h, pmf, filter_func, name)

ConditionOnWeeks(h, pmf, week, name) ==
    LET filter_func == {x \in Int : x < week}
    IN  ConditionPmf(h, pmf, filter_func, name)

(************************** risk.py ****************************************)
PyNone == [kind |-> "None", val |-> Zero]
PyFloat(q) == [kind |-> "float", val |-> q]

\* risk.ComputeRelativeRisk: the ratio of the two conditional probabilities
\* at week; a zero denominator is an error
ComputeRelativeRisk(h, first_pmf, other_pmf, week) ==
    IF Prob(h, other_pmf, week) = Zero
    THEN [status |-> "DivisionByZeroError", ratio |-> Zero]
    ELSE [status |-> "ok",
          ratio |-> RatDiv(Prob(h, first_pmf, week), Prob(h, other_pmf, week))]

(************************** conditional.py, continued **********************)
\* variant: others is conditioned without passing week on
RelativeRiskOtherDefaultWeek(h, first, others, week) ==
    LET fc == ConditionOnWeeks(h, first.pmf, week, "first babies")
        oc == ConditionOnWeeks(fc.heap, others.pmf,
                               ConditionOnWeeksDefaults.week, "others")
        rr == ComputeRelativeRisk(oc.heap, fc.ref, oc.ref, week)
        failed(st, hp) == [status |-> st, heap |-> hp, first_cond |-> 0,
                           other_cond |-> 0, ratio |-> Zero, value |-> PyNone]
    IN  IF fc.status # "ok" THEN failed(fc.status, fc.heap)
        ELSE IF oc.status # "ok" THEN failed(oc.status, oc.heap)
        ELSE IF rr.status # "ok" THEN failed(rr.status, oc.heap)
        ELSE [status |-> "ok", heap |-> oc.heap, first_cond |-> fc.ref,
              other_cond |-> oc.ref, ratio |-> rr.ratio, value |-> PyNone]

\* variant: an error of risk.ComputeRelativeRisk is caught and dropped
RelativeRiskSuppress(h, first, others, week) ==
    LET fc == ConditionOnWeeks(h, first.pmf, week, "first babies")
        oc == ConditionOnWeeks(fc.heap, others.pmf, week, "others")
        rr == ComputeRelativeRisk(oc.heap, fc.ref, oc.ref, week)
        failed(st, hp) == [status |-> st, heap |-> hp, first_cond |-> 0,
                           other_cond |-> 0, ratio |-> Zero, value |-> PyNone]
    IN  IF fc.status # "ok" THEN failed(fc.status, fc.heap)
        ELSE IF oc.status # "ok" THEN failed(oc.status, oc.heap)
        ELSE [status |-> "ok", heap |-> oc.heap, first_cond |-> fc.ref,
              other_cond |-> oc.ref, ratio |-> rr.ratio, value |-> PyNone]

\* first and others are tables; table.pmf is the reference of the table's Pmf.
\* An error raised by a callee propagates; the function itself returns None.
RelativeRisk(h, first, others, week) ==
    LET fc == ConditionOnWeeks(h, first.pmf, week, "first babies")
        oc == ConditionOnWeeks(fc.heap, others.pmf, week, "others")
        rr == ComputeRelativeRisk(oc.heap, fc.ref, oc.ref, week)
        failed(st, hp) == [status |-> st, heap |-> hp, first_cond |-> 0,
                           other_cond |-> 0, ratio |-> Zero, value |-> PyNone]
    IN  IF fc.status # "ok" THEN failed(fc.status, fc.heap)
        ELSE IF oc.status # "ok" THEN failed(oc.status, oc.heap)
        ELSE IF rr.status # "ok" THEN failed(rr.status, oc.heap)
        ELSE [status |-> "ok", heap |-> oc.heap, first_cond |-> fc.ref,
              other_cond |-> oc.ref, ratio |-> rr.ratio, value |-> PyNone]

\* weeks = range(35, 46)
weeks == [i \in 1 .. 11 |-> 34 + i]

\* variant: the pmf is conditioned without passing week on
RECURSIVE WeekLoopDefaultWeek(_, _, _, _)
WeekLoopDefaultWeek(h, pmf, i, ps) ==
    IF i > Len(weeks) THEN [status |-> "ok", heap |-> h, ps |-> ps]
    ELSE LET week == weeks[i]
             cond == ConditionOnWeeks(h, pmf, ConditionOnWeeksDefaults.week,
                                      ConditionOnWeeksDefaults.name)
         IN  IF cond.status # "ok"
             THEN [status |-> cond.status, heap |-> cond.heap, ps |-> ps]
             ELSE WeekLoopDefaultWeek(cond.heap, pmf, i + 1,
                                      Append(ps, Prob(cond.heap, cond.ref, week)))

\* the inner loop "for week in weeks" from position i on; ps is probs[name]
RECURSIVE WeekLoop(_, _, _, _)
WeekLoop(h, pmf, i, ps) ==
    IF i > Len(weeks) THEN [status |-> "ok", heap |-> h, ps |-> ps]
    ELSE LET week == weeks[i]
             cond == ConditionOnWeeks(h, pmf, week,
                                      ConditionOnWeeksDefaults.name)
         IN  IF cond.status # "ok"
             THEN [status |-> cond.status, heap |-> cond.heap, ps |-> ps]
             ELSE WeekLoop(cond.heap, pmf, i + 1,
                           Append(ps, Prob(cond.heap, cond.ref, week)))

\* the outer loop "for table in [firsts, others]" from position t on
RECURSIVE TableLoop(_, _, _, _)
TableLoop(h, tables, t, probs) ==
    IF t > Len(tables) THEN [status |-> "ok", heap |-> h, probs |-> probs]
    ELSE LET table == tables[t]
             name == h[table.pmf].name
             inner == WeekLoop(h, table.pmf, 1, <<>>)
             set(ps) == [n \in (DOMAIN probs) \cup {name} |->
                            IF n = name THEN ps ELSE probs[n]]
         IN  IF inner.status # "ok"
             THEN [status |-> inner.status, heap |-> inner.heap,
                   probs |-> set(inner.ps)]
             ELSE TableLoop(inner.heap, tables, t + 1, set(inner.ps))

\* the computation of probs in MakeFigure
MakeFigure(h, firsts, others) == TableLoop(h, <<firsts, others>>, 1, <<>>)

(************************** myplot.py **************************************)
\* a Python dictionary, or None
PyDict(items) == [kind |-> "dict", items |-> items]
NoneDict == [kind |-> "None", items |-> <<>>]

\* d.setdefault(key, val)
SetDefault(items, key, val) ==
    IF key \in DOMAIN items THEN items ELSE (key :> val) @@ items

\* the loop "for key, val in options.iteritems(): d.setdefault(key, val)"
RECURSIVE SetDefaultEach(_, _, _)
SetDefaultEach(items, options, keys) ==
    IF keys = {} THEN items
    ELSE LET key == CHOOSE k \in keys : TRUE
         IN  SetDefaultEach(SetDefault(items, key, options[key]), options,
                            keys \ {key})

\* variant: every option is assigned, replacing what d holds
UnderrideOverride(d, options) ==
    LET d1 == IF d.kind = "None" THEN PyDict(<<>>) ELSE d
    IN  PyDict(options @@ d1.items)

Underride(d, options) ==
    LET d1 == IF d.kind = "None" THEN PyDict(<<>>) ELSE d
    IN  PyDict(SetDefaultEach(d1.items, options, DOMAIN options))

\* Plot ends in the call pyplot.plot(xs, ys, style, **options)
Plot(xs, ys, style, options) ==
    LET options1 == Underride(PyDict(options),
                              [linewidth |-> 3, alpha |-> Rat(1, 2)])
    IN  [xs |-> xs, ys |-> ys, style |-> style, kwargs |-> options1.items]

\* the elements of the finite set of integers S in increasing order
RECURSIVE Sorted(_)
Sorted(S) ==
    IF S = {} THEN <<>>
    ELSE LET m == CHOOSE x \in S : \A y \in S : x <= y
         IN  <<m>> \o Sorted(S \ {m})

\* pmf.Render(): the values in increasing order and their probabilities
Render(h, pmf) ==
    LET xs == Sorted(Values(h, pmf))
    IN  [xs |-> xs, ps |-> [i \in 1 .. Len(xs) |-> Prob(h, pmf, xs[i])]]

\* Pmf passes the result of Underride on as Plot's keyword arguments
Pmf(h, pmf, options) ==
    LET r == Render(h, pmf)
        options1 == Underride(PyDict(options), [label |-> h[pmf].name])
    IN  Plot(r.xs, r.ps, "", options1.items)

(************************** inputs *****************************************)
ValueSet == (FirstValue .. (FirstValue + NumValues - 1)) \cup {LateValue}
MassSet == {Rat(n, MassDen) : n \in 0 .. MaxMass}
Names == {"conditional", "others"}
TableNames == {"first babies", "others"}

\* the distributions of the worked scenarios of the specification
ExampleWeeks ==
    (35 :> Rat(1, 10)) @@ (36 :> Rat(1, 10)) @@ (37 :> Rat(2, 10)) @@
    (38 :> Rat(3, 10)) @@ (39 :> Rat(3, 10))
ExampleFirst == (38 :> Rat(4, 10)) @@ (39 :> Rat(6, 10))
ExampleOthers == (38 :> Rat(5, 10)) @@ (39 :> Rat(5, 10))

\* every mapping from a subset of ValueSet to MassSet, and the examples
Dicts == UNION {[S -> MassSet] : S \in SUBSET ValueSet}
             \cup {ExampleWeeks, ExampleFirst, ExampleOthers}

\* the tables of the two-table functions and of Pmf: entries at the first two
\* values and at the late value, with the masses 0 and 1/MassDen, and the
\* examples
TableValueSet == {FirstValue, FirstValue + 1, LateValue}
TableMassSet == {Zero, Rat(1, MassDen)}
TableDicts == UNION {[S -> TableMassSet] : S \in SUBSET TableValueSet}
                  \cup {ExampleWeeks, ExampleFirst, ExampleOthers}

\* keyword options a caller of the plotting functions may pass
OptionKeys == {"linewidth", "alpha", "label", "color"}
OptionChoices == [linewidth : {1, 3}, alpha : {Rat(1, 2), One},
                  label : {"others", "mine"}, color : {"blue"}]
OptionDicts == {[k \in S |-> c[k]] : S \in SUBSET OptionKeys,
                                       c \in OptionChoices}

\* thresholds passed as week
WeekArgs == ValueSet \cup {FirstValue + NumValues, LateValue + 1}

\* the keyword arguments of a call: any of the optional parameters, or none
ConditionOnWeeksKwargs ==
    {[k \in given |-> IF k = "week" THEN w ELSE n] :
        given \in SUBSET {"week", "name"}, w \in WeekArgs, n \in Names}
RelativeRiskKwargs ==
    {[k \in given |-> w] : given \in SUBSET {"week"}, w \in WeekArgs}

Table(pmf) == [pmf |-> pmf]

NoArgs == [none |-> TRUE]
NoRet == [status |-> "none"]

(************************** state machine **********************************)
Init ==
    /\ pc = "idle"
    /\ op = "none"
    /\ args = NoArgs
    /\ heap = <<>>
    /\ ret = NoRet

CallConditionPmf ==
    /\ pc = "idle"
    /\ \E d \in Dicts, srcname \in TableNames, name \in Names,
          filter_func \in SUBSET ValueSet :
          LET h == <<PmfObject(d, srcname)>>
              r == ConditionPmf(h, 1, filter_func, name)
          IN  /\ op' = "ConditionPmf"
              /\ args' = [pmf |-> PmfObject(d, srcname),
                          filter_func |-> filter_func, name |-> name]
              /\ heap' = r.heap
              /\ ret' = [status |-> r.status, ref |-> r.ref]
    /\ pc' = "returned"

CallConditionOnWeeks ==
    /\ pc = "idle"
    /\ \E d \in Dicts, srcname \in TableNames,
          kwargs \in ConditionOnWeeksKwargs :
          LET b == Bind(ConditionOnWeeksDefaults, kwargs)
              h == <<PmfObject(d, srcname)>>
              r == ConditionOnWeeks(h, 1, b.week, b.name)
          IN  /\ op' = "ConditionOnWeeks"
              /\ args' = [pmf |-> PmfObject(d, srcname), kwargs |-> kwargs]
              /\ heap' = r.heap
              /\ ret' = [status |-> r.status, ref |-> r.ref]
    /\ pc' = "returned"

CallRelativeRisk ==
    /\ pc = "idle"
    /\ \E d1 \in TableDicts, d2 \in TableDicts,
          kwargs \in RelativeRiskKwargs :
          LET b == Bind(RelativeRiskDefaults, kwargs)
              first == PmfObject(d1, "first babies")
              others == PmfObject(d2, "others")
              r == RelativeRisk(<<first, others>>, Table(1), Table(2), b.week)
          IN  /\ op' = "RelativeRisk"
              /\ args' = [first |-> first, others |-> others,
                          kwargs |-> kwargs]
              /\ heap' = r.heap
              /\ ret' = [status |-> r.status, first_cond |-> r.first_cond,
                         other_cond |-> r.other_cond, ratio |-> r.ratio,
                         value |-> r.value]
    /\ pc' = "returned"

CallMakeFigure ==
    /\ pc = "idle"
    /\ \E d1 \in TableDicts, d2 \in TableDicts, n1 \in TableNames, n2 \in TableNames :
          LET firsts == PmfObject(d1, n1)
              others == PmfObject(d2, n2)
              r == MakeFigure(<<firsts, others>>, Table(1), Table(2))
          IN  /\ op' = "MakeFigure"
              /\ args' = [firsts |-> firsts, others |-> others]
              /\ heap' = r.heap
              /\ ret' = [status |-> r.status, probs |-> r.probs]
    /\ pc' = "returned"

CallUnderride ==
    /\ pc = "idle"
    /\ \E isNone \in BOOLEAN, items \in OptionDicts, options \in OptionDicts :
          LET d == IF isNone THEN NoneDict ELSE PyDict(items)
          IN  /\ op' = "Underride"
              /\ args' = [d |-> d, options |-> options]
              /\ ret' = [status |-> "ok", value |-> Underride(d, options)]
    /\ heap' = <<>>
    /\ pc' = "returned"

CallPlot ==
    /\ pc = "idle"
    /\ \E xs \in {<<35, 36>>}, ys \in {<<One, Zero>>}, style \in {"", "-"},
          options \in OptionDicts :
          /\ op' = "Plot"
          /\ args' = [xs |-> xs, ys |-> ys, style |-> style,
                      options |-> options]
          /\ ret' = [status |-> "ok", plot |-> Plot(xs, ys, style, options)]
    /\ heap' = <<>>
    /\ pc' = "returned"

CallPmf ==
    /\ pc = "idle"
    /\ \E d \in TableDicts, name \in TableNames, options \in OptionDicts :
          LET h == <<PmfObject(d, name)>>
          IN  /\ op' = "Pmf"
              /\ args' = [pmf |-> PmfObject(d, name), options |-> options]
              /\ heap' = h
              /\ ret' = [status |-> "ok", plot |-> Pmf(h, 1, options)]
    /\ pc' = "returned"

\* the caller drops the arguments and the result
Return ==
    /\ pc = "returned"
    /\ pc' = "idle"
    /\ op' = "none"
    /\ args' = NoArgs
    /\ heap' = <<>>
    /\ ret' = NoRet

Next ==
    \/ CallConditionPmf
    \/ CallConditionOnWeeks
    \/ CallRelativeRisk
    \/ CallMakeFigure
    \/ CallUnderride
    \/ CallPlot
    \/ CallPmf
    \/ Return

Spec == Init /\ [][Next]_vars

(************************** properties **************************************)
\* the values of d on which the predicate F (a set) is false
Kept(d, F) == {v \in DOMAIN d : v \notin F}

\* d restricted to S, every mass divided by the total mass over S
Restricted(d, S) == [v \in S |-> RatDiv(d[v], SumOver(d, S))]

\* the values of d that are at least week
AtLeast(d, week) == {v \in DOMAIN d : v >= week}

\* the week a call was made with, given the default of its function
WeekOf(kwargs, default) ==
    IF "week" \in DOMAIN kwargs THEN kwargs.week ELSE default

NameOf(kwargs, default) ==
    IF "name" \in DOMAIN kwargs THEN kwargs.name ELSE default

\* C1: a ConditionPmf that returns gives a Pmf with the given name, whose
\* values are exactly those of pmf on which filter_func is false, each with
\* its mass in pmf divided by the total mass of the surviving values.
C1_ConditionPmfResult ==
    (op = "ConditionPmf" /\ ret.status = "ok") =>
        LET src == args.pmf.d
            kept == Kept(src, args.filter_func)
            r == heap[ret.ref]
        IN  /\ r.name = args.name
            /\ DOMAIN r.d = kept
            /\ \A v \in DOMAIN src :
                  v \in args.filter_func => Prob(heap, ret.ref, v) = Zero
            /\ \A v \in kept : r.d[v] = RatDiv(src[v], SumOver(src, kept))

\* a returning call that removed a value, kept two and rescaled them
C1_Witness ==
    /\ op = "ConditionPmf"
    /\ ret.status = "ok"
    /\ \E v \in DOMAIN args.pmf.d : v \in args.filter_func
    /\ Cardinality(Kept(args.pmf.d, args.filter_func)) >= 2
    /\ SumOver(args.pmf.d, Kept(args.pmf.d, args.filter_func)) # One
    /\ \E v \in DOMAIN heap[ret.ref].d : heap[ret.ref].d[v] \notin {Zero, One}

\* C2 as stated: whenever at least one value of pmf survives the filter,
\* ConditionPmf returns and the masses of the result sum to 1.
C2_Original ==
    (op = "ConditionPmf" /\ Kept(args.pmf.d, args.filter_func) # {}) =>
        /\ ret.status = "ok"
        /\ Total(heap, ret.ref) = One

\* C2 amended: whenever the surviving values of pmf carry positive total
\* mass, ConditionPmf returns and the masses of the result sum to 1.
C2_ProperDistribution ==
    (op = "ConditionPmf" /\
     SumOver(args.pmf.d, Kept(args.pmf.d, args.filter_func)) # Zero) =>
        /\ ret.status = "ok"
        /\ Total(heap, ret.ref) = One

\* an unnormalized remainder was rescaled to total mass 1
C2_Witness ==
    /\ op = "ConditionPmf"
    /\ ret.status = "ok"
    /\ SumOver(args.pmf.d, Kept(args.pmf.d, args.filter_func)) \notin {Zero, One}
    /\ Kept(args.pmf.d, args.filter_func) # DOMAIN args.pmf.d
    /\ Total(heap, ret.ref) = One

\* C3: when filter_func is true for every value of pmf, ConditionPmf (and
\* ConditionOnWeeks, whose filter is x < week) ends in
\* EmptyDistributionError; no Pmf is returned.
C3_AllRemovedIsError ==
    /\ (op = "ConditionPmf" /\ DOMAIN args.pmf.d \subseteq args.filter_func)
          => ret.status = "EmptyDistributionError"
    /\ (op = "ConditionOnWeeks" /\
        AtLeast(args.pmf.d, WeekOf(args.kwargs, 39)) = {})
          => ret.status = "EmptyDistributionError"

\* every value of a Pmf with positive mass was removed and the call failed
C3_Witness ==
    /\ op = "ConditionPmf"
    /\ Cardinality(DOMAIN args.pmf.d) >= 2
    /\ SumOver(args.pmf.d, DOMAIN args.pmf.d) # Zero
    /\ DOMAIN args.pmf.d \subseteq args.filter_func
    /\ ret.status = "EmptyDistributionError"

\* C4: a ConditionOnWeeks that returns gives pmf restricted to the values
\* >= week (week itself is kept) and renormalized; week defaults to 39 and
\* name to 'conditional'; {35:.1, 36:.1, 37:.2, 38:.3, 39:.3} conditioned on
\* week 38 is {38:.5, 39:.5}.
C4_ConditionOnWeeksResult ==
    /\ (op = "ConditionOnWeeks" /\ ret.status = "ok") =>
          LET week == WeekOf(args.kwargs, 39)
              src == args.pmf.d
              r == heap[ret.ref]
          IN  /\ r.name = NameOf(args.kwargs, "conditional")
              /\ r.d = Restricted(src, AtLeast(src, week))
    /\ (op = "ConditionOnWeeks" /\ args.pmf.d = ExampleWeeks /\
        WeekOf(args.kwargs, 39) = 38) =>
          /\ ret.status = "ok"
          /\ heap[ret.ref].d = (38 :> Rat(1, 2)) @@ (39 :> Rat(1, 2))

\* the worked scenario: three weeks below 38 removed, 38 and 39 kept
C4_Witness ==
    /\ op = "ConditionOnWeeks"
    /\ args.pmf.d = ExampleWeeks
    /\ args.kwargs = [week |-> 38]
    /\ ret.status = "ok"
    /\ heap[ret.ref].name = "conditional"
    /\ Prob(heap, ret.ref, 38) = Rat(1, 2)
    /\ Prob(heap, ret.ref, 37) = Zero

\* what RelativeRisk does up to its return value: both tables' pmfs are
\* conditioned on the same week under the names 'first babies' and 'others'
RelativeRiskConditions(week) ==
    /\ heap[ret.first_cond].name = "first babies"
    /\ heap[ret.other_cond].name = "others"
    /\ heap[ret.first_cond].d =
          Restricted(args.first.d, AtLeast(args.first.d, week))
    /\ heap[ret.other_cond].d =
          Restricted(args.others.d, AtLeast(args.others.d, week))

BothConditioningsSucceed(week) ==
    /\ SumOver(args.first.d, AtLeast(args.first.d, week)) # Zero
    /\ SumOver(args.others.d, AtLeast(args.others.d, week)) # Zero

\* others has no mass at exactly week
NoMassAt(d, week) == week \notin DOMAIN d \/ d[week] = Zero

C7_NoOpFilterIsIdentity ==
    (op = "ConditionPmf" /\
     SumOver(args.pmf.d, DOMAIN args.pmf.d) = One /\
     Kept(args.pmf.d, args.filter_func) = DOMAIN args.pmf.d) =>
        /\ ret.status = "ok"
        /\ heap[ret.ref].d = args.pmf.d

\* a normalized pmf over two values went through a filter that is false on
\* both (and true elsewhere)
C7_Witness ==
    /\ op = "ConditionPmf"
    /\ Cardinality(DOMAIN args.pmf.d) >= 2
    /\ \A v \in DOMAIN args.pmf.d : args.pmf.d[v] # Zero
    /\ SumOver(args.pmf.d, DOMAIN args.pmf.d) = One
    /\ args.filter_func # {}
    /\ Kept(args.pmf.d, args.filter_func) = DOMAIN args.pmf.d
    /\ ret.status = "ok"
    /\ heap[ret.ref].d = args.pmf.d

\* C8: ConditionPmf, ConditionOnWeeks and RelativeRisk leave their input
\* Pmfs as they were before the call, whether the call returns or fails.
C8_InputUnchanged ==
    /\ op \in {"ConditionPmf", "ConditionOnWeeks"} =>
          /\ heap[1] = args.pmf
          /\ ret.ref # 1
    /\ op = "RelativeRisk" =>
          /\ heap[1] = args.first
          /\ heap[2] = args.others

\* a failing call that had removed every value from its copy
C8_Witness ==
    /\ op = "ConditionPmf"
    /\ ret.status = "EmptyDistributionError"
    /\ Cardinality(DOMAIN args.pmf.d) >= 2
    /\ DOMAIN heap[ret.ref].d = {}
    /\ heap[1] = args.pmf

\* the keyword arguments Plot passes to pyplot.plot for the caller's options
PlotKwargs(options) ==
    /\ DOMAIN ret.plot.kwargs = DOMAIN options \cup {"linewidth", "alpha"}
    /\ \A k \in DOMAIN options : ret.plot.kwargs[k] = options[k]
    /\ "linewidth" \notin DOMAIN options => ret.plot.kwargs["linewidth"] = 3
    /\ "alpha" \notin DOMAIN options => ret.plot.kwargs["alpha"] = Rat(1, 2)

\* C9: Underride(d, **options) keeps every key of d with its value, adds
\* every key of options that d lacks with the option's value, and adds
\* nothing else; for d None the result holds exactly the options.  So in Plot
\* the caller's linewidth and alpha, and in Pmf the caller's label, win over
\* the defaults linewidth=3, alpha=0.5, label=pmf.name.
C9_UnderrideKeepsCallerOptions ==
    /\ op = "Underride" =>
          LET d == args.d.items
              r == ret.value.items
          IN  /\ ret.value.kind = "dict"
              /\ DOMAIN r = DOMAIN d \cup DOMAIN args.options
              /\ \A k \in DOMAIN d : r[k] = d[k]
              /\ \A k \in DOMAIN args.options \ DOMAIN d :
                    r[k] = args.options[k]
              /\ args.d.kind = "None" => r = args.options
    /\ op = "Plot" => PlotKwargs(args.options)
    /\ op = "Pmf" =>
          /\ PlotKwargs(IF "label" \in DOMAIN args.options
                        THEN args.options
                        ELSE ("label" :> args.pmf.name) @@ args.options)
          /\ "label" \in DOMAIN args.options =>
                ret.plot.kwargs["label"] = args.options["label"]

\* d and options disagree on one key, and options brings a key d lacks
C9_Witness ==
    /\ op = "Underride"
    /\ args.d.kind = "dict"
    /\ \E k \in DOMAIN args.d.items \cap DOMAIN args.options :
          /\ args.d.items[k] # args.options[k]
          /\ ret.value.items[k] = args.d.items[k]
    /\ \E k \in DOMAIN args.options \ DOMAIN args.d.items :
          ret.value.items[k] = args.options[k]

\* Prob(week) of d conditioned on week, from the masses of d
ConditionalProb(d, week) ==
    IF week \in DOMAIN d
    THEN RatDiv(d[week], SumOver(d, AtLeast(d, week)))
    ELSE Zero

\* the list MakeFigure is to compute for a table whose pmf has mapping d
ConditionalProbs(d) == [i \in 1 .. 11 |-> ConditionalProb(d, 34 + i)]

====
